---------------------------- MODULE Spec2Model ----------------------------
(***************************************************************************)
(* Two Jupyter notebooks: the Gaussians notebook                           *)
(* (src/distribute_gaussians.ipynb) and the numpy notebook                 *)
(* (src/unnamed/part_000).                                                 *)
(*                                                                         *)
(* A notebook is a sequence of code cells run by one kernel that keeps a   *)
(* global namespace.  A cell is a sequence of statements; a statement      *)
(* reads global names in evaluation order, may make a library call, and    *)
(* binds names.  Reading an unbound name raises NameError and ends the     *)
(* cell; the bindings made by the statements before it stay.               *)
(*                                                                         *)
(* Names local to a function body or to a comprehension and Python         *)
(* built-ins (len, print, range, int, float) are not global reads.  A      *)
(* call of a function defined in the notebook reads, after its arguments,  *)
(* the global names its body reads.                                        *)
(***************************************************************************)
EXTENDS Integers, Sequences, FiniteSets, TLC

VARIABLES
    nb,           \* the notebook being run: "gauss", "numpy" ("none": no run)
    fileExists,   \* does the CSV file of the hard-coded path exist
    stopOnError,  \* does a failing cell stop the run (Run All) or not
    pc,           \* number of code cells executed so far, in document order
    env,          \* the kernel's global namespace: the set of bound names
    imported,     \* the names of env bound by an import statement
    hist,         \* one record per executed cell, in execution order
    halted        \* the run was stopped by a failing cell

nbvars == <<nb, fileExists, stopOnError, pc, env, imported, hist, halted>>

VARIABLES
    number_of_samples, sample_size,   \* the arguments of make_throws
    start,        \* the array make_throws fills
    mtI,          \* iterations of "for i in range(number_of_samples)" done
    writes,       \* how many times each row of start was assigned
    drawn,        \* per row, the flips throw_a_coin returned for it
    means,        \* the value make_throws returned
    mtPc          \* "idle", "loop", "done"

mtvars == <<number_of_samples, sample_size, start, mtI, writes, drawn, means, mtPc>>

VARIABLES
    seed,          \* state of the random generator when the cell starts
    sample_sizes,  \* np.arange(1, 1001, 10)
    sample_means,  \* the list the comprehension of line 212 has built so far
    swPc           \* "idle", "loop", "done"

swvars == <<seed, sample_sizes, sample_means, swPc>>

VARIABLES
    random_flips, running_means, sequence_lengths,
    rmI,          \* iterations of "for i in sequence_lengths" done
    rmWrites,     \* how many times each entry of running_means was assigned
    rmPc          \* "idle", "loop", "done"

rmvars == <<random_flips, running_means, sequence_lengths, rmI, rmWrites, rmPc>>

VARIABLES
    Na,           \* np.linspace(0,1000,1000): the x values of the sweep plot
    mcDraws,      \* per entry of Imc written so far, the size of X it used
    mcWritten,    \* per iteration so far, the index of Imc it assigned
    plotted,      \* the points of the two curves the cell draws
    mcPc          \* "idle", "loop", "plot", "done"

mcvars == <<Na, mcDraws, mcWritten, plotted, mcPc>>

VARIABLES
    op,           \* the expression a numpy-notebook cell evaluates ("none")
    lhs, rhs,     \* its operands
    out           \* its value

opvars == <<op, lhs, rhs, out>>

-----------------------------------------------------------------------------
(* Cells and statements                                                    *)

\* a plain statement at a source line
St(l, r, b) == [line |-> l, reads |-> r, binds |-> b, call |-> "none"]

\* import ... [as name] / from ... import name
Imp(l, b) == [line |-> l, reads |-> <<>>, binds |-> b, call |-> "import"]

\* a statement whose value comes from a library or shell call
Call(l, r, b, c) == [line |-> l, reads |-> r, binds |-> b, call |-> c]

\* a code cell: the line of its "cell_type", its committed execution_count
\* (0 for null) and its statements in order of first execution
Cell(l, e, s) == [line |-> l, exec |-> e, stmts |-> s]


\* the code cells of src/distribute_gaussians.ipynb
GaussCells ==
  <<
    Cell(11, 8, <<Imp(23, {"np"}),
                    Imp(24, {"sp"}),
                    Imp(25, {"mpl"}),
                    Imp(26, {"cm"}),
                    Imp(27, {"plt"}),
                    Imp(28, {"pd"}),
                    Imp(29, {"bernoulli"})>>),
    Cell(44, 9, <<St(54, <<>>, {"throw_a_coin"})>>),
    Cell(60, 10, <<St(70, <<"throw_a_coin", "bernoulli">>, {"random_flips"}),
                    St(71, <<"np">>, {"running_means"}),
                    St(72, <<"np">>, {"sequence_lengths"}),
                    St(73, <<"sequence_lengths">>, {"i"}),
                    St(74, <<"np", "random_flips", "i", "running_means", "i">>, {})>>),
    Cell(78, 11, <<St(90, <<"plt", "sequence_lengths", "running_means">>, {}),
                    St(91, <<"plt">>, {})>>),
    Cell(148, 14, <<St(158, <<>>, {"make_throws"})>>),
    Cell(166, 15, <<St(176, <<"make_throws", "np", "throw_a_coin", "bernoulli", "np">>, {})>>),
    Cell(201, 16, <<St(211, <<"np">>, {"sample_sizes"}),
                    St(212, <<"sample_sizes", "make_throws", "np", "throw_a_coin", "bernoulli", "np">>, {"sample_means"})>>),
    Cell(234, 17, <<St(244, <<"sample_means", "np">>, {"mean_of_sample_means"}),
                    St(245, <<"mean_of_sample_means">>, {})>>),
    Cell(249, 18, <<St(261, <<"plt", "sample_sizes", "mean_of_sample_means">>, {}),
                    St(262, <<"plt">>, {}),
                    St(263, <<"plt">>, {})>>),
    Cell(302, 19, <<St(314, <<"sample_sizes", "make_throws", "np", "throw_a_coin", "bernoulli", "np">>, {"sample_means_1000_replicates"}),
                    St(315, <<"sample_means_1000_replicates", "np">>, {"mean_of_sample_means_1000"})>>),
    Cell(319, 20, <<St(324, <<"plt", "sample_sizes", "mean_of_sample_means_1000">>, {}),
                    St(325, <<"plt">>, {}),
                    St(326, <<"plt">>, {})>>),
    Cell(339, 21, <<St(344, <<"sample_means">>, {})>>),
    Cell(355, 22, <<St(360, <<"sample_sizes", "sample_sizes", "sample_sizes">>, {})>>),
    Cell(371, 23, <<St(376, <<>>, {"i"}),
                    St(377, <<"plt", "sample_sizes", "i", "sample_means", "i">>, {}),
                    St(378, <<"plt">>, {}),
                    St(379, <<"plt">>, {})>>),
    Cell(390, 24, <<St(401, <<>>, {"i"}),
                    St(402, <<"plt", "sample_sizes", "i", "sample_means_1000_replicates", "i">>, {}),
                    St(403, <<"plt">>, {}),
                    St(404, <<"plt">>, {})>>),
    Cell(408, 26, <<St(418, <<"sample_means_1000_replicates", "np">>, {"std_of_sample_means_1000"})>>),
    Cell(422, 27, <<St(434, <<"plt", "np", "sample_sizes", "np", "std_of_sample_means_1000">>, {})>>),
    Cell(438, 28, <<St(443, <<"np", "np", "np", "std_of_sample_means_1000", "np", "np", "sample_sizes">>, {})>>),
    Cell(461, 29, <<St(471, <<"plt", "sample_means", "np">>, {})>>),
    Cell(557, 30, <<St(562, <<>>, {"f"}),
                    St(565, <<>>, {"intf"})>>),
    Cell(570, 32, <<St(575, <<>>, {"a"}),
                    St(576, <<>>, {"b"}),
                    St(577, <<"np">>, {"Imc"}),
                    St(578, <<"np">>, {"Na"}),
                    St(580, <<"intf", "b", "np", "np", "intf", "a", "np", "np">>, {"exactval"}),
                    St(582, <<"np">>, {"N"}),
                    St(583, <<"np", "a", "b", "N">>, {"X"}),
                    St(584, <<"f", "X", "np">>, {"Y"}),
                    St(586, <<"b", "a", "np", "Y", "N", "Imc", "N">>, {}),
                    St(589, <<"plt", "Na", "np", "Imc", "exactval">>, {}),
                    St(590, <<"plt", "Na", "np", "Na">>, {}),
                    St(591, <<"plt">>, {}),
                    St(592, <<"plt">>, {})>>),
    Cell(619, 33, <<St(625, <<>>, {"m"}),
                    St(626, <<>>, {"N"}),
                    St(627, <<"np", "m">>, {"Imc"}),
                    St(630, <<"np", "m">>, {"i"}),
                    St(632, <<"np", "a", "b", "N">>, {"X"}),
                    St(633, <<"f", "X", "np">>, {"Y"}),
                    St(635, <<"b", "a", "np", "Y", "N", "Imc", "i">>, {}),
                    St(638, <<"plt", "Imc">>, {}),
                    St(639, <<"plt">>, {}),
                    St(640, <<"np", "Imc", "np", "Imc">>, {})>>)
  >>


\* the code cells of src/unnamed/part_000
NumpyCells ==
  <<
    Cell(18, 1, <<Imp(23, {"np"})>>),
    Cell(38, 2, <<St(54, <<"np">>, {"my_array"}),
                    St(55, <<"my_array">>, {})>>),
    Cell(66, 3, <<St(84, <<"my_array">>, {}),
                    St(85, <<"my_array">>, {}),
                    St(86, <<"my_array">>, {"ele"}),
                    St(87, <<"ele">>, {})>>),
    Cell(100, 4, <<St(114, <<"my_array">>, {}),
                    St(115, <<"np", "my_array">>, {})>>),
    Cell(128, 5, <<St(144, <<"np">>, {})>>),
    Cell(155, 6, <<St(171, <<"np">>, {})>>),
    Cell(175, 7, <<St(191, <<"np">>, {})>>),
    Cell(195, 8, <<St(211, <<"np">>, {})>>),
    Cell(215, 9, <<St(231, <<"np">>, {})>>),
    Cell(235, 10, <<St(253, <<"np">>, {})>>),
    Cell(257, 12, <<St(273, <<"np", "np">>, {})>>),
    Cell(277, 13, <<St(293, <<"np", "np">>, {})>>),
    Cell(306, 14, <<St(322, <<"np">>, {"first"}),
                    St(323, <<"np">>, {"second"}),
                    St(324, <<"first", "second">>, {})>>),
    Cell(328, 15, <<St(344, <<>>, {"first_list"}),
                    St(345, <<>>, {"second_list"}),
                    St(346, <<"first_list", "second_list">>, {})>>),
    Cell(364, 16, <<St(380, <<"first">>, {})>>),
    Cell(384, 17, <<St(400, <<"first">>, {})>>),
    Cell(412, 25, <<St(430, <<"np">>, {"my_array2d"}),
                    St(431, <<"my_array2d">>, {})>>),
    Cell(435, 26, <<St(451, <<"my_array2d">>, {})>>),
    Cell(455, 27, <<St(474, <<"np">>, {"ones_2d"}),
                    St(475, <<"ones_2d">>, {})>>),
    Cell(486, 28, <<St(511, <<"my_array2d">>, {}),
                    St(512, <<"my_array2d">>, {})>>),
    Cell(525, 29, <<St(543, <<"np">>, {"onesarray"}),
                    St(544, <<"onesarray">>, {})>>),
    Cell(548, 30, <<St(564, <<"onesarray">>, {})>>),
    Cell(575, 31, <<St(591, <<"np", "onesarray">>, {})>>),
    Cell(602, 22, <<St(618, <<"np", "onesarray">>, {})>>),
    Cell(622, 23, <<St(638, <<"np", "my_array2d">>, {})>>),
    Cell(649, 24, <<St(665, <<"np", "onesarray">>, {})>>),
    Cell(669, 38, <<Imp(686, {"pd"}),
                    Call(687, <<"pd">>, {"test_data"}, "read_csv"),
                    St(688, <<"test_data">>, {})>>),
    Cell(692, 0, <<St(697, <<"test_data">>, {"labels"})>>),
    Cell(701, 44, <<St(718, <<"labels">>, {})>>),
    Cell(722, 41, <<St(739, <<"test_data">>, {"test_images_df"}),
                    St(740, <<"test_images_df">>, {})>>),
    Cell(744, 42, <<St(761, <<"test_images_df">>, {"test_images"})>>),
    Cell(765, 43, <<St(782, <<"test_images">>, {})>>),
    Cell(786, 45, <<St(803, <<"test_images">>, {"test_images_tensor"}),
                    St(804, <<"test_iamges_tensor">>, {})>>),
    Cell(808, 40, <<Call(821, <<>>, {}, "shell_head")>>),
    Cell(825, 36, <<Imp(830, {"matplotlib"})>>),
    Cell(834, 0, <<Imp(839, {"plt"})>>),
    Cell(843, 37, <<St(860, <<"plt", "first_image">>, {})>>)
  >>

Cells(n) == IF n = "gauss" THEN GaussCells ELSE IF n = "numpy" THEN NumpyCells ELSE <<>>

-----------------------------------------------------------------------------
(* Executing a cell                                                        *)

NoError == [ename |-> "", evalue |-> ""]

\* first name of the sequence r that is not bound in e ("" when all are)
RECURSIVE FirstUnbound(_, _)
FirstUnbound(r, e) ==
    IF r = <<>> THEN ""
    ELSE IF Head(r) \notin e THEN Head(r)
    ELSE FirstUnbound(Tail(r), e)

\* keyword arguments the read_csv call of line 687 passes
ReadCsvKwargs == {"head"}

\* keyword parameters read_csv accepts (those the notebook could mean)
ReadCsvParams == {"sep", "header", "names", "index_col", "nrows"}

\* pd.read_csv(path, **kw): the keywords are bound to the parameters before
\* the body runs, and the body opens the file
ReadCsvFileFirst(kw, exists) ==
    IF ~exists THEN [ename |-> "FileNotFoundError", evalue |-> "mnist_test.csv"]
    ELSE IF ~(kw \subseteq ReadCsvParams)
    THEN [ename |-> "TypeError", evalue |-> CHOOSE k \in kw : k \notin ReadCsvParams]
    ELSE NoError

ReadCsvAnyKeyword(kw, exists) ==
    IF ~exists THEN [ename |-> "FileNotFoundError", evalue |-> "mnist_test.csv"]
    ELSE NoError

ReadCsv(kw, exists) ==
    IF ~(kw \subseteq ReadCsvParams)
    THEN [ename |-> "TypeError", evalue |-> CHOOSE k \in kw : k \notin ReadCsvParams]
    ELSE IF ~exists THEN [ename |-> "FileNotFoundError", evalue |-> "mnist_test.csv"]
    ELSE NoError

\* the exception a statement's call raises, if any; "!head -10 <path>" is a
\* shell command: a missing file is a message on its output, no exception
CallError(s, exists) ==
    IF s.call = "read_csv" THEN ReadCsv(ReadCsvKwargs, exists) ELSE NoError

\* the names a statement binds in the namespace
BindNothing(e, s) == e

Bind(e, s) == e \cup s.binds

\* a read of name x is a read from another cell when x was bound before the
\* cell started, is not an imported name and was not rebound by this cell
IsCrossReadImportsToo(x, e0, imp0, own) == x \in e0 /\ x \notin own

IsCrossRead(x, e0, imp0, own) == x \in e0 /\ x \notin imp0 /\ x \notin own

\* state of a cell after its statements i..Len(ss): st carries the namespace
\* (env, imp), the names bound by the cell so far (own), the names read from
\* other cells (cross), the namespace at the start of the cell (e0, imp0)
RECURSIVE RunStmts(_, _, _, _)
RunStmts(ss, i, st, exists) ==
    IF i > Len(ss) THEN st
    ELSE LET s  == ss[i]
             u  == FirstUnbound(s.reads, st.env)
             rd == {s.reads[k] : k \in {j \in 1..Len(s.reads) :
                        \A h \in 1..j : s.reads[h] \in st.env}}
             cr == st.cross \cup
                     {x \in rd : IsCrossRead(x, st.e0, st.imp0, st.own)}
         IN IF u # ""
            THEN [st EXCEPT !.cross = cr, !.line = s.line,
                            !.err = [ename |-> "NameError", evalue |-> u]]
            ELSE IF CallError(s, exists) # NoError
            THEN [st EXCEPT !.cross = cr, !.line = s.line,
                            !.err = CallError(s, exists)]
            ELSE RunStmts(ss, i + 1,
                   [st EXCEPT !.cross = cr,
                              !.env = Bind(st.env, s),
                              !.imp = IF s.call = "import"
                                      THEN st.imp \cup s.binds
                                      ELSE st.imp \ s.binds,
                              !.own = st.own \cup s.binds],
                   exists)

\* the outcome of running cell c of notebook n in namespace (e, imp); the
\* statements before a failing one keep their effect
ExecRollback(n, c, e, imp, exists) ==
    LET r == RunStmts(Cells(n)[c].stmts, 1,
                      [env |-> e, imp |-> imp, own |-> {}, cross |-> {},
                       e0 |-> e, imp0 |-> imp, line |-> 0, err |-> NoError],
                      exists)
    IN IF r.err # NoError THEN [r EXCEPT !.env = e, !.imp = imp] ELSE r

Exec(n, c, e, imp, exists) ==
    RunStmts(Cells(n)[c].stmts, 1,
             [env |-> e, imp |-> imp, own |-> {}, cross |-> {},
              e0 |-> e, imp0 |-> imp, line |-> 0, err |-> NoError],
             exists)

\* the cell run after p cells of a notebook of n cells: document order
NextIndexReversed(p, n) == n - p

NextIndex(p, n) == p + 1

-----------------------------------------------------------------------------
(* The run of a notebook                                                   *)

Notebooks == {"gauss", "numpy"}

IdleRun ==
    /\ nb = "none" /\ fileExists = FALSE /\ stopOnError = FALSE /\ pc = 0
    /\ env = {} /\ imported = {} /\ hist = <<>> /\ halted = FALSE

InitRun ==
    /\ nb \in Notebooks
    /\ fileExists \in BOOLEAN
    /\ stopOnError \in BOOLEAN
    /\ pc = 0
    /\ env = {}
    /\ imported = {}
    /\ hist = <<>>
    /\ halted = FALSE

\* the names the CSV cells of the numpy notebook bind (lines 687, 697, 739,
\* 761)
StaleNames == {"test_data", "labels", "test_images_df", "test_images"}

\* the numpy notebook is run again in a kernel that was not restarted: the
\* namespace still holds names the CSV cells bound earlier in the session
\* (the execution counts 45, 40 of the committed cells are out of document
\* order)
InitStale ==
    /\ nb = "numpy"
    /\ fileExists \in BOOLEAN
    /\ stopOnError \in BOOLEAN
    /\ pc = 0
    /\ env \in SUBSET StaleNames
    /\ imported = {}
    /\ hist = <<>>
    /\ halted = FALSE

\* the kernel executes the next code cell
RunCell ==
    /\ nb \in Notebooks
    /\ ~halted
    /\ pc < Len(Cells(nb))
    /\ LET c == NextIndex(pc, Len(Cells(nb)))
           r == Exec(nb, c, env, imported, fileExists)
       IN /\ env' = r.env
          /\ imported' = r.imp
          /\ hist' = Append(hist, [cell |-> c,
                                   line |-> Cells(nb)[c].line,
                                   exec |-> Cells(nb)[c].exec,
                                   err |-> r.err,
                                   errline |-> r.line,
                                   cross |-> r.cross])
          /\ halted' = (stopOnError /\ r.err # NoError)
    /\ pc' = pc + 1
    /\ UNCHANGED <<nb, fileExists, stopOnError>>
    /\ UNCHANGED <<mtvars, swvars, rmvars>>
    /\ UNCHANGED <<mcvars, opvars>>


-----------------------------------------------------------------------------
(* Arrays of the Gaussians notebook                                        *)
(*                                                                         *)
(* A float that is the quotient of two integers is kept as the record      *)
(* [num, den]; den = 0 is the nan numpy returns for the mean of no         *)
(* elements.  A 2-D array is the sequence of its rows.                     *)

Min(x, y) == IF x < y THEN x ELSE y

\* np.zeros(n): n float zeros
Zeros(n) == [k \in 1..n |-> [num |-> 0, den |-> 1]]

\* np.zeros((m, n), dtype=int)
Zeros2(m, n) == [r \in 1..m |-> [k \in 1..n |-> 0]]

\* np.arange(start, stop, step) for step > 0: start, start + step, ... < stop
ArangeInclusive(first, stop, step) ==
    IF stop < first THEN <<>>
    ELSE [k \in 1..((stop - first) \div step + 1) |-> first + (k - 1) * step]

Arange(first, stop, step) ==
    IF stop <= first THEN <<>>
    ELSE [k \in 1..((stop - first + step - 1) \div step) |-> first + (k - 1) * step]

\* s[:i] for i >= 0: the first i elements (all of s when i > len(s))
SliceOneShort(s, i) == SubSeq(s, 1, Min(i, Len(s)) - 1)

Slice(s, i) == SubSeq(s, 1, Min(i, Len(s)))

\* sum of s[lo..hi], by halves as numpy's pairwise summation adds
RECURSIVE SumRange(_, _, _)
SumRange(s, lo, hi) ==
    IF lo > hi THEN 0
    ELSE IF lo = hi THEN s[lo]
    ELSE IF lo + 1 = hi THEN s[lo] + s[hi]
    ELSE IF lo + 3 = hi THEN s[lo] + s[lo + 1] + s[lo + 2] + s[hi]
    ELSE LET mid == (lo + hi) \div 2
         IN SumRange(s, lo, mid) + SumRange(s, mid + 1, hi)

\* np.mean of a 1-D array of integers: sum / count
Mean(s) == [num |-> SumRange(s, 1, Len(s)), den |-> Len(s)]

\* np.mean(start, axis=1): one mean per row; start has n columns
MeanAxis0(arr, n) ==
    [j \in 1..n |-> Mean([r \in 1..Len(arr) |-> arr[r][j]])]

MeanAxis1(arr, n) == [r \in 1..Len(arr) |-> Mean(arr[r])]

\* start[i,:] = row  (i counted from 1)
AssignRow(arr, i, row) == [arr EXCEPT ![i] = row]

\* throw_a_coin(n): the arrays bernoulli(0.5).rvs(size=n) can return
ThrowACoin(n) == [1..n -> {0, 1}]

\* the loop of lines 160-161 for i = lo..hi (counted from 1) when the i-th
\* call of throw_a_coin returns draw[i]: the assignments in increasing i,
\* the range split in halves to keep the evaluation shallow
RECURSIVE FillRows(_, _, _, _)
FillRows(arr, lo, hi, draw) ==
    IF lo > hi THEN arr
    ELSE IF lo = hi THEN AssignRow(arr, lo, draw[lo])
    ELSE LET mid == (lo + hi) \div 2
             done == FillRows(arr, lo, mid, draw)
         IN IF Len(done) = Len(arr)      \* rows lo..mid first, then the rest
            THEN FillRows(done, mid + 1, hi, draw)
            ELSE done

\* make_throws(m, n)
MakeThrows(m, n, draw) == MeanAxis1(FillRows(Zeros2(m, n), 1, m, draw), n)

-----------------------------------------------------------------------------
(* make_throws, one loop iteration at a time                               *)


MaxSamples == 3
MaxSampleSize == 3

IdleThrows ==
    /\ number_of_samples = 0 /\ sample_size = 0 /\ start = <<>> /\ mtI = 0
    /\ writes = <<>> /\ drawn = <<>> /\ means = <<>> /\ mtPc = "idle"

\* make_throws is called: start = np.zeros(...)
InitThrows ==
    /\ number_of_samples \in 0..MaxSamples
    /\ sample_size \in 0..MaxSampleSize
    /\ start = Zeros2(number_of_samples, sample_size)
    /\ mtI = 0
    /\ writes = [r \in 1..number_of_samples |-> 0]
    /\ drawn = <<>>
    /\ means = <<>>
    /\ mtPc = "loop"

\* one iteration of the loop of line 160
MakeThrowsStep ==
    /\ mtPc = "loop"
    /\ mtI < number_of_samples
    /\ \E row \in ThrowACoin(sample_size) :
          /\ start' = AssignRow(start, mtI + 1, row)
          /\ drawn' = Append(drawn, row)
    /\ writes' = [writes EXCEPT ![mtI + 1] = @ + 1]
    /\ mtI' = mtI + 1
    /\ UNCHANGED <<number_of_samples, sample_size, means, mtPc>>
    /\ UNCHANGED <<nbvars, swvars, rmvars>>
    /\ UNCHANGED <<mcvars, opvars>>

\* the loop is over: return np.mean(start, axis=1)
MakeThrowsReturn ==
    /\ mtPc = "loop"
    /\ mtI = number_of_samples
    /\ means' = MeanAxis1(start, sample_size)
    /\ mtPc' = "done"
    /\ UNCHANGED <<number_of_samples, sample_size, start, mtI, writes, drawn>>
    /\ UNCHANGED <<nbvars, swvars, rmvars>>
    /\ UNCHANGED <<mcvars, opvars>>

-----------------------------------------------------------------------------
(* The cell of lines 211-212: sample_sizes and sample_means                *)


NumSeeds == 2

\* the literals of lines 211, 212
SizesFirst == 1
SizesStop == 1001
SizesStep == 10
Replications == 200

\* the j-th flip of the i-th sample of the k-th make_throws call, for the
\* generator state sd: one stream of 0s and 1s per seed
Flip(sd, k, i, j) == (sd + k + i * j) % 2

Draws(sd, k, m, n) == [i \in 1..m |-> [j \in 1..n |-> Flip(sd, k, i, j)]]

IdleSweep ==
    /\ seed = 0 /\ sample_sizes = <<>> /\ sample_means = <<>> /\ swPc = "idle"

InitSweep ==
    /\ seed \in 1..NumSeeds
    /\ sample_sizes = Arange(SizesFirst, SizesStop, SizesStep)
    /\ sample_means = <<>>
    /\ swPc = "loop"

\* one element of the comprehension of line 212
SweepStep ==
    /\ swPc = "loop"
    /\ Len(sample_means) < Len(sample_sizes)
    /\ LET k == Len(sample_means) + 1
           n == sample_sizes[k]
       IN sample_means' =
             Append(sample_means,
                    MakeThrows(Replications, n, Draws(seed, k, Replications, n)))
    /\ UNCHANGED <<seed, sample_sizes, swPc>>
    /\ UNCHANGED <<nbvars, mtvars, rmvars>>
    /\ UNCHANGED <<mcvars, opvars>>

\* the comprehension is exhausted and sample_means is bound
SweepDone ==
    /\ swPc = "loop"
    /\ Len(sample_means) = Len(sample_sizes)
    /\ swPc' = "done"
    /\ UNCHANGED <<seed, sample_sizes, sample_means>>
    /\ UNCHANGED <<nbvars, mtvars, rmvars>>
    /\ UNCHANGED <<mcvars, opvars>>

-----------------------------------------------------------------------------
(* The cell of lines 70-74: the running mean                               *)


\* the notebook's 10000 flips, scaled down
MaxFlips == 5

IdleRunning ==
    /\ random_flips = <<>> /\ running_means = <<>> /\ sequence_lengths = <<>>
    /\ rmI = 0 /\ rmWrites = <<>> /\ rmPc = "idle"

\* lines 70-72 with n in place of 10000
InitRunning ==
    /\ \E n \in 1..MaxFlips :
          /\ random_flips \in ThrowACoin(n)
          /\ running_means = Zeros(n)
          /\ sequence_lengths = Arange(1, n + 1, 1)
          /\ rmWrites = [k \in 1..n |-> 0]
    /\ rmI = 0
    /\ rmPc = "loop"

\* one iteration of the loop of lines 73-74;
\* running_means[i-1] counts from 0, the sequences here from 1
RunningMeanStep ==
    /\ rmPc = "loop"
    /\ rmI < Len(sequence_lengths)
    /\ LET i == sequence_lengths[rmI + 1]
       IN /\ running_means' = [running_means EXCEPT ![i] = Mean(Slice(random_flips, i))]
          /\ rmWrites' = [rmWrites EXCEPT ![i] = @ + 1]
    /\ rmI' = rmI + 1
    /\ UNCHANGED <<random_flips, sequence_lengths, rmPc>>
    /\ UNCHANGED <<nbvars, mtvars, swvars>>
    /\ UNCHANGED <<mcvars, opvars>>

\* the loop is over
RunningMeanDone ==
    /\ rmPc = "loop"
    /\ rmI = Len(sequence_lengths)
    /\ rmPc' = "done"
    /\ UNCHANGED <<random_flips, running_means, sequence_lengths, rmI, rmWrites>>
    /\ UNCHANGED <<nbvars, mtvars, swvars>>
    /\ UNCHANGED <<mcvars, opvars>>


-----------------------------------------------------------------------------
(* The cell of lines 575-592: the Monte-Carlo sweep                        *)

\* the literals of lines 577, 578, 582, 589
McSize == 1000
NaStop == 1000
PlotFrom == 10

\* np.linspace(first, stop, n) for n > 1: n points, both ends included,
\* the k-th (from 0) first + k * (stop - first) / (n - 1)
Linspace(first, stop, n) ==
    [k \in 1..n |-> [num |-> first * (n - 1) + (k - 1) * (stop - first),
                     den |-> n - 1]]

\* s[i:] (i counted from 0)
From(s, i) == SubSeq(s, i + 1, Len(s))

IdleMC ==
    /\ Na = <<>> /\ mcDraws = <<>> /\ mcWritten = <<>> /\ plotted = <<>>
    /\ mcPc = "idle"

\* lines 575-580: Imc = np.zeros(1000); Na = np.linspace(0,1000,1000)
InitMC ==
    /\ Na = Linspace(0, NaStop, McSize)
    /\ mcDraws = <<>>
    /\ mcWritten = <<>>
    /\ plotted = <<>>
    /\ mcPc = "loop"

\* one iteration of the loop of lines 582-586 for the next N of
\* np.arange(0,1000): X holds N uniform draws and Imc[N] is assigned from
\* them (the value of Imc[N], a real number, is not part of the state)
McStep ==
    /\ mcPc = "loop"
    /\ Len(mcWritten) < Len(Arange(0, McSize, 1))
    /\ LET N == Arange(0, McSize, 1)[Len(mcWritten) + 1]
       IN /\ mcDraws' = Append(mcDraws, N)
          /\ mcWritten' = Append(mcWritten, N)
    /\ UNCHANGED <<Na, plotted, mcPc>>
    /\ UNCHANGED <<nbvars, mtvars, swvars, rmvars, opvars>>

\* lines 589-590: plt.plot(Na[10:], error of Imc[10:]) and
\* plt.plot(Na[10:], 1/np.sqrt(Na[10:])); a point keeps its x value, the
\* index of the Imc entry it shows and the argument of the square root
McPlot ==
    /\ mcPc = "loop"
    /\ Len(mcWritten) = Len(Arange(0, McSize, 1))
    /\ plotted' = [p \in 1..Len(From(Na, PlotFrom)) |->
                     [x |-> From(Na, PlotFrom)[p],
                      entry |-> From(mcWritten, PlotFrom)[p],
                      draws |-> From(mcDraws, PlotFrom)[p],
                      redOf |-> From(Na, PlotFrom)[p]]]
    /\ mcPc' = "done"
    /\ UNCHANGED <<Na, mcDraws, mcWritten>>
    /\ UNCHANGED <<nbvars, mtvars, swvars, rmvars, opvars>>

-----------------------------------------------------------------------------
(* Array expressions of the numpy notebook                                 *)
(*                                                                         *)
(* A value is [kind, val]: kind "array" (val the sequence of elements),    *)
(* "array2d" (val the sequence of rows), "list", "scalar" or "error" (val  *)
(* the exception's name).  The floats of these cells are whole numbers     *)
(* and are kept as integers.                                               *)

Arr(x) == [kind |-> "array", val |-> x]
Arr2(x) == [kind |-> "array2d", val |-> x]
Lst(x) == [kind |-> "list", val |-> x]
Sca(c) == [kind |-> "scalar", val |-> c]
Err(e) == [kind |-> "error", val |-> e]

\* np.ones(n), np.ones([r, c])
NpOnes(n) == [k \in 1..n |-> 1]
NpOnes2(r, c) == [i \in 1..r |-> NpOnes(c)]

\* np.array([ [1, 2, 3, 4], [5, 6, 7, 8], [9, 10, 11, 12] ])
my_array2d == <<<<1, 2, 3, 4>>, <<5, 6, 7, 8>>, <<9, 10, 11, 12>>>>

\* np.ones([3,4])
onesarray == NpOnes2(3, 4)

\* a number broadcast to the shape (n,)
StretchFirstOnly(c, n) == [k \in 1..n |-> IF k = 1 THEN c ELSE 0]

StretchScalar(c, n) == [k \in 1..n |-> c]

\* a 1-D array broadcast to the shape (n,): itself, or its one element
\* repeated
Stretch(x, n) == IF Len(x) = n THEN x ELSE StretchScalar(x[1], n)

\* the common shape of two 1-D arrays (-1: they cannot be broadcast)
BroadcastLen(x, y) ==
    IF Len(x) = Len(y) THEN Len(x)
    ELSE IF Len(x) = 1 THEN Len(y)
    ELSE IF Len(y) = 1 THEN Len(x)
    ELSE -1

Add(p, q) == p + q
Mul(p, q) == p * q

\* the ufunc named f ("add" for +, "multiply" for *) on two elements
Elem(f, p, q) == IF f = "add" THEN Add(p, q) ELSE Mul(p, q)

\* a binary ufunc on two 1-D arrays
Elementwise(f, x, y) ==
    IF BroadcastLen(x, y) < 0 THEN Err("ValueError")
    ELSE Arr([k \in 1..BroadcastLen(x, y) |->
                 Elem(f, Stretch(x, BroadcastLen(x, y))[k],
                         Stretch(y, BroadcastLen(x, y))[k])])

\* a binary ufunc on an array, a list or a number, one of them an array
Ufunc(f, l, r) ==
    IF l.kind = "scalar" THEN Elementwise(f, StretchScalar(l.val, Len(r.val)), r.val)
    ELSE IF r.kind = "scalar" THEN Elementwise(f, l.val, StretchScalar(r.val, Len(l.val)))
    ELSE Elementwise(f, l.val, r.val)

\* l + r
PlusConcatenates(l, r) ==
    IF l.kind \in {"list", "array"} /\ r.kind \in {"list", "array"}
    THEN [kind |-> l.kind, val |-> l.val \o r.val]
    ELSE IF l.kind = "scalar" /\ r.kind = "scalar" THEN Sca(l.val + r.val)
    ELSE Err("TypeError")

Plus(l, r) ==
    IF l.kind = "array" \/ r.kind = "array" THEN Ufunc("add", l, r)
    ELSE IF l.kind = "list" /\ r.kind = "list" THEN Lst(l.val \o r.val)
    ELSE IF l.kind = "scalar" /\ r.kind = "scalar" THEN Sca(l.val + r.val)
    ELSE Err("TypeError")

\* a list repeated c times
RECURSIVE Repeat(_, _)
Repeat(x, c) == IF c <= 0 THEN <<>> ELSE x \o Repeat(x, c - 1)

\* l * r
Times(l, r) ==
    IF l.kind = "array" \/ r.kind = "array" THEN Ufunc("multiply", l, r)
    ELSE IF l.kind = "list" /\ r.kind = "scalar" THEN Lst(Repeat(l.val, r.val))
    ELSE IF l.kind = "scalar" /\ r.kind = "list" THEN Lst(Repeat(r.val, l.val))
    ELSE IF l.kind = "scalar" /\ r.kind = "scalar" THEN Sca(l.val * r.val)
    ELSE Err("TypeError")

\* the elements of a 2-D array in row-major order
RECURSIVE Ravel(_, _)
Ravel(A, i) == IF i = 0 THEN <<>> ELSE Ravel(A, i - 1) \o A[i]

\* np.sum(A): the sum of all the elements
NpSum(A) == Sca(SumRange(Ravel(A, Len(A)), 1, Len(Ravel(A, Len(A)))))

\* the rows 1..i of A added up element by element
RECURSIVE AddRows(_, _)
AddRows(A, i) ==
    IF i = 1 THEN A[1]
    ELSE Elementwise("add", AddRows(A, i - 1), A[i]).val

\* np.sum(A, axis=1): the sum over axis 1, one entry per row
NpSumAxis1(A) == Arr([i \in 1..Len(A) |-> SumRange(A[i], 1, Len(A[i]))])

\* np.sum(A, axis=0): the sum over axis 0, one entry per column
NpSumAxis0Across(A) == Arr([i \in 1..Len(A) |-> SumRange(A[i], 1, Len(A[i]))])

NpSumAxis0(A) == Arr(AddRows(A, Len(A)))

\* the operands the cells are evaluated on
MaxLen == 5
MaxVal == 2
MaxScalar == 5
MaxRows == 2
MaxCols == 2

Arrays == UNION {[1..n -> 1..MaxVal] : n \in 0..MaxLen}
Scalars == 1..MaxScalar
Matrices ==
    UNION {[1..r -> [1..c -> 1..MaxVal]] : r \in 1..MaxRows, c \in 1..MaxCols}
        \cup {my_array2d, onesarray}

IdleOps == op = "none" /\ lhs = <<>> /\ rhs = <<>> /\ out = <<>>

\* a cell of the numpy notebook is about to evaluate its expression
InitOps == op = "ready" /\ lhs = <<>> /\ rhs = <<>> /\ out = <<>>

Evaluate(name, l, r, v) ==
    /\ op' = name /\ lhs' = l /\ rhs' = r /\ out' = v
    /\ UNCHANGED <<nbvars, mtvars, swvars, rmvars, mcvars>>

\* line 324: first + second
AddArraysCell ==
    /\ op = "ready"
    /\ \E first \in Arrays, second \in Arrays :
           Evaluate("array + array", Arr(first), Arr(second), Plus(Arr(first), Arr(second)))

\* line 346: first_list + second_list
AddListsCell ==
    /\ op = "ready"
    /\ \E first_list \in Arrays, second_list \in Arrays :
           Evaluate("list + list", Lst(first_list), Lst(second_list),
                    Plus(Lst(first_list), Lst(second_list)))

\* line 380: first + 1
AddScalarCell ==
    /\ op = "ready"
    /\ \E first \in Arrays, c \in Scalars :
           Evaluate("array + number", Arr(first), Sca(c), Plus(Arr(first), Sca(c)))

\* line 400: first*5
MulScalarCell ==
    /\ op = "ready"
    /\ \E first \in Arrays, c \in Scalars :
           Evaluate("array * number", Arr(first), Sca(c), Times(Arr(first), Sca(c)))

\* line 591: np.sum(onesarray)
SumCell ==
    /\ op = "ready"
    /\ \E A \in Matrices : Evaluate("sum", Arr2(A), <<>>, NpSum(A))

\* lines 618, 638: np.sum(onesarray, axis=0), np.sum(my_array2d, axis=0)
SumAxis0Cell ==
    /\ op = "ready"
    /\ \E A \in Matrices : Evaluate("sum axis=0", Arr2(A), <<>>, NpSumAxis0(A))

\* line 665: np.sum(onesarray, axis=1)
SumAxis1Cell ==
    /\ op = "ready"
    /\ \E A \in Matrices : Evaluate("sum axis=1", Arr2(A), <<>>, NpSumAxis1(A))

-----------------------------------------------------------------------------
(* Properties of the notebook runs                                         *)

\* the cell of line l has been executed / its record in the history
Done(l) == \E h \in 1..Len(hist) : hist[h].line = l
Rec(l) == hist[CHOOSE h \in 1..Len(hist) : hist[h].line = l]

NameErr(x) == [ename |-> "NameError", evalue |-> x]

\* the names every statement of a cell reads
CellReads(cell) ==
    UNION {{cell.stmts[i].reads[k] : k \in 1..Len(cell.stmts[i].reads)} :
             i \in 1..Len(cell.stmts)}

CsvNames == {"test_data", "labels", "test_images_df", "test_images"}

\* the numpy cells after the read_csv cell that read one of the CSV names
CsvReaders ==
    {NumpyCells[c].line : c \in {d \in 1..Len(NumpyCells) :
        /\ NumpyCells[d].line > 669
        /\ CellReads(NumpyCells[d]) \cap CsvNames # {}}}

\* line of the cell |-> the name its NameError names
C1_Expected ==
    (692 :> "test_data") @@ (701 :> "labels") @@ (722 :> "test_data") @@
    (744 :> "test_images_df") @@ (765 :> "test_images") @@ (786 :> "test_images")

\* C1: in a document-order run of the numpy notebook that a failing cell
\* does not stop, the read_csv cell fails with TypeError for the keyword
\* 'head', and every later cell reading test_data, labels, test_images_df
\* or test_images fails with NameError naming the first unbound name it
\* reads: test_data (labels assignment, drop), labels, test_images_df
\* (.values), test_images (.shape, reshape).
C1_CsvCellsFail ==
    (nb = "numpy" /\ ~stopOnError) =>
        /\ CsvReaders = DOMAIN C1_Expected
        /\ Done(669) => Rec(669).err = [ename |-> "TypeError", evalue |-> "head"]
        /\ \A l \in DOMAIN C1_Expected :
              Done(l) => Rec(l).err = NameErr(C1_Expected[l])

C1_Witness ==
    /\ nb = "numpy" /\ ~stopOnError /\ fileExists
    /\ Done(669) /\ Done(786)
    /\ Rec(786).err = NameErr("test_images")

\* C2 as stated: every code cell of both notebooks is self-contained; apart
\* from imported modules it reads no name bound by a different cell.
C2_AllCellsSelfContained ==
    \A h \in 1..Len(hist) : hist[h].cross = {}

\* lines of the cells that read a name bound by an earlier cell
CrossReadingCells(n) ==
    IF n = "gauss"
    THEN {60, 78, 166, 201, 234, 249, 302, 319, 339, 355, 371, 390, 408,
          422, 438, 461, 570, 619}
    ELSE {66, 100, 364, 384, 435, 486, 548, 575, 602, 622, 649}

\* C2 amended: cells are not all self-contained.  In a document-order run
\* the cells that read a non-module name bound by an earlier cell are
\* exactly those of CrossReadingCells; sample_means bound by the cell at
\* 201 is read by the cell at 234, and a, b, f by the cell at 619.
C2_CrossReadingCells ==
    /\ \A h \in 1..Len(hist) :
          (hist[h].cross # {}) <=> (hist[h].line \in CrossReadingCells(nb))
    /\ (nb = "gauss" /\ Done(234)) => Rec(234).cross = {"sample_means"}
    /\ (nb = "gauss" /\ Done(619)) => Rec(619).cross = {"a", "b", "f"}

C2_Witness ==
    /\ nb = "gauss" /\ Done(619)
    /\ Rec(619).cross = {"a", "b", "f"}

\* C3: in the Gaussians notebook, executing the code cells once each in
\* document order never reads an unbound name: no cell ends in NameError
\* (or any error), and the run is never stopped before the last cell.
C3_GaussNoNameError ==
    nb = "gauss" =>
        /\ \A h \in 1..Len(hist) : hist[h].err = NoError
        /\ ~halted

C3_Witness ==
    /\ nb = "gauss" /\ pc = Len(GaussCells) /\ Len(hist) = Len(GaussCells)
    /\ hist[Len(hist)].line = 619 /\ hist[Len(hist)].err = NoError
    /\ {"throw_a_coin", "make_throws", "sample_sizes", "sample_means",
        "sample_means_1000_replicates", "std_of_sample_means_1000",
        "f", "intf", "a", "b"} \subseteq env

\* the committed execution counts of the executed cells strictly increase
\* along the first k records of the history
CountsIncrease(k) ==
    \A i, j \in 1..k :
        (i < j /\ hist[i].exec # 0 /\ hist[j].exec # 0)
            => hist[i].exec < hist[j].exec

\* C4 as stated: in each notebook the committed execution counts of the
\* executed code cells strictly increase in document order.
C4_CountsIncreaseBoth == CountsIncrease(Len(hist))

\* C4 amended: the committed execution counts strictly increase in document
\* order in the Gaussians notebook; in the numpy notebook they do so only up
\* to the cell np.sum(onesarray) (count 31, line 575), which the cell with
\* count 22 follows.
C4_CountsIncreaseGauss ==
    /\ nb = "gauss" => CountsIncrease(Len(hist))
    /\ nb = "numpy" =>
          \A k \in 1..Len(hist) : hist[k].line <= 575 => CountsIncrease(k)

C4_Witness ==
    /\ nb = "gauss" /\ pc = Len(GaussCells)
    /\ hist[1].exec = 8 /\ hist[Len(hist)].exec = 33

C6_TypeErrorEitherWay ==
    (nb = "numpy" /\ Done(669)) =>
        /\ Rec(669).err = [ename |-> "TypeError", evalue |-> "head"]
        /\ Rec(669).errline = 687
        /\ "test_data" \notin env
        /\ "pd" \in env

C6_Witness ==
    /\ nb = "numpy" /\ Done(669) /\ ~fileExists
    /\ Rec(669).err.ename = "TypeError"


-----------------------------------------------------------------------------
(* Properties of the arrays                                                *)

\* number of ones in a sequence of flips
Ones(row) == Cardinality({j \in 1..Len(row) : row[j] = 1})

\* C7: for number_of_samples >= 0 and sample_size >= 1, make_throws returns
\* exactly number_of_samples means; the i-th mean is the number of ones
\* among the sample_size flips drawn for row i divided by sample_size, so it
\* lies in [0, 1]; every row of the zero-initialised array is overwritten by
\* exactly one call of throw_a_coin.
C7_MakeThrowsMeans ==
    (mtPc = "done" /\ sample_size >= 1) =>
        /\ Len(means) = number_of_samples
        /\ Len(drawn) = number_of_samples
        /\ \A i \in 1..number_of_samples :
              /\ Len(drawn[i]) = sample_size
              /\ means[i] = [num |-> Ones(drawn[i]), den |-> sample_size]
              /\ 0 <= means[i].num /\ means[i].num <= means[i].den
              /\ start[i] = drawn[i]
              /\ writes[i] = 1

C7_Witness ==
    /\ mtPc = "done" /\ number_of_samples = 3 /\ sample_size = 2
    /\ means = <<[num |-> 0, den |-> 2], [num |-> 1, den |-> 2], [num |-> 2, den |-> 2]>>

\* each list of means built so far has one mean per replication, each a
\* mean over sample_sizes[k] flips; the finished list has one entry per size
SweepShape ==
    /\ Len(sample_means) <= Len(sample_sizes)
    /\ swPc = "done" => Len(sample_means) = Len(sample_sizes)
    /\ \A k \in 1..Len(sample_means) :
          /\ Len(sample_means[k]) = Replications
          /\ \A m \in 1..Replications : sample_means[k][m].den = sample_sizes[k]

C9_HistogramAt1000 ==
    swPc = "done" =>
        /\ sample_sizes[99 + 1] = 1000
        /\ \A m \in 1..Len(sample_means[99 + 1]) : sample_means[99 + 1][m].den = 1000

\* C10: after the running-mean loop, for every n the entry running_means[n-1]
\* is S_n = (x_1 + ... + x_n)/n over the first n flips of random_flips; every
\* entry of the zero-initialised array is written exactly once, and
\* sequence_lengths[n-1] = n is the length plotted against it.
C10_RunningMeans ==
    rmPc = "done" =>
        /\ Len(running_means) = Len(random_flips)
        /\ Len(sequence_lengths) = Len(random_flips)
        /\ \A n \in 1..Len(random_flips) :
              /\ running_means[n] =
                    [num |-> Cardinality({j \in 1..n : random_flips[j] = 1}),
                     den |-> n]
              /\ rmWrites[n] = 1
              /\ sequence_lengths[n] = n

C10_Witness ==
    /\ rmPc = "done" /\ Len(random_flips) = 4
    /\ random_flips = <<1, 0, 1, 1>>
    /\ running_means[3] = [num |-> 2, den |-> 3]


\* C11: in the Monte Carlo sweep plot the x-coordinate is the number of
\* samples N: for every plotted index k (10 <= k <= 999) the x value Na[k]
\* equals k, the number of uniform draws used to compute Imc[k], and the red
\* reference curve at that point is 1/sqrt(k).
C11_PlotXIsN ==
    mcPc = "done" =>
        \A p \in 1..Len(plotted) :
            LET k == p - 1 + PlotFrom
            IN /\ plotted[p].entry = k
               /\ plotted[p].draws = k
               /\ plotted[p].x.num = k * plotted[p].x.den
               /\ plotted[p].redOf.num = k * plotted[p].redOf.den

\* C13: for every 1-D array x and number c, x + c is an array of the same
\* length whose i-th element is x[i] + c, and x * c is an array of the same
\* length whose i-th element is x[i] * c (for first = five ones, first + 1
\* is all 2s and first * 5 all 5s, the committed outputs of lines 371, 391).
C13_ScalarBroadcast ==
    /\ op = "array + number" =>
          /\ out.kind = "array" /\ Len(out.val) = Len(lhs.val)
          /\ \A i \in 1..Len(lhs.val) : out.val[i] = lhs.val[i] + rhs.val
          /\ (lhs.val = <<1, 1, 1, 1, 1>> /\ rhs.val = 1) => out.val = <<2, 2, 2, 2, 2>>
    /\ op = "array * number" =>
          /\ out.kind = "array" /\ Len(out.val) = Len(lhs.val)
          /\ \A i \in 1..Len(lhs.val) : out.val[i] = lhs.val[i] * rhs.val
          /\ (lhs.val = <<1, 1, 1, 1, 1>> /\ rhs.val = 5) => out.val = <<5, 5, 5, 5, 5>>

C13_Witness ==
    /\ op = "array * number" /\ lhs = Arr(<<1, 1, 1, 1, 1>>) /\ rhs = Sca(5)
    /\ out = Arr(<<5, 5, 5, 5, 5>>)

\* C14: adding two arrays of equal length n with + yields an array of
\* length n whose i-th element is the sum of the i-th elements, whereas + on
\* two lists of lengths n and m yields their concatenation of length n + m
\* (five ones plus five ones: the array of five 2s of line 312, the list of
\* ten 1.0s of line 335).
C14_ArraysAddListsConcatenate ==
    /\ (op = "array + array" /\ Len(lhs.val) = Len(rhs.val)) =>
          /\ out.kind = "array" /\ Len(out.val) = Len(lhs.val)
          /\ \A i \in 1..Len(lhs.val) : out.val[i] = lhs.val[i] + rhs.val[i]
          /\ lhs.val = <<1, 1, 1, 1, 1>> /\ rhs.val = <<1, 1, 1, 1, 1>>
                => out.val = <<2, 2, 2, 2, 2>>
    /\ op = "list + list" =>
          /\ out.kind = "list" /\ Len(out.val) = Len(lhs.val) + Len(rhs.val)
          /\ \A i \in 1..Len(lhs.val) : out.val[i] = lhs.val[i]
          /\ \A i \in 1..Len(rhs.val) : out.val[Len(lhs.val) + i] = rhs.val[i]
          /\ lhs.val = <<1, 1, 1, 1, 1>> /\ rhs.val = <<1, 1, 1, 1, 1>>
                => out.val = <<1, 1, 1, 1, 1, 1, 1, 1, 1, 1>>

C14_Witness ==
    /\ op = "array + array" /\ lhs = Arr(<<1, 1, 1, 1, 1>>) /\ rhs = Arr(<<1, 1, 1, 1, 1>>)
    /\ out = Arr(<<2, 2, 2, 2, 2>>)

\* the sum of column j, of row i, and of all rows of a 2-D array
ColSum(A, j) == SumRange([i \in 1..Len(A) |-> A[i][j]], 1, Len(A))
RowSum(A, i) == SumRange(A[i], 1, Len(A[i]))
Total(A) == SumRange([i \in 1..Len(A) |-> RowSum(A, i)], 1, Len(A))

\* C15: for every R x C array A, np.sum(A) is the sum of all R*C elements,
\* np.sum(A, axis=0) is a length-C vector whose j-th entry is the sum of
\* column j, and np.sum(A, axis=1) a length-R vector whose i-th entry is the
\* sum of row i; the entries of either vector add up to np.sum(A) (for
\* my_array2d: [15, 18, 21, 24]; for the 3 x 4 ones: 12, [3,3,3,3], [4,4,4]).
C15_SumsAlongAxes ==
    /\ op = "sum" =>
          /\ out = Sca(Total(lhs.val))
          /\ lhs.val = onesarray => out.val = 12
    /\ op = "sum axis=0" =>
          /\ out.kind = "array" /\ Len(out.val) = Len(lhs.val[1])
          /\ \A j \in 1..Len(out.val) : out.val[j] = ColSum(lhs.val, j)
          /\ SumRange(out.val, 1, Len(out.val)) = NpSum(lhs.val).val
          /\ lhs.val = my_array2d => out.val = <<15, 18, 21, 24>>
          /\ lhs.val = onesarray => out.val = <<3, 3, 3, 3>>
    /\ op = "sum axis=1" =>
          /\ out.kind = "array" /\ Len(out.val) = Len(lhs.val)
          /\ \A i \in 1..Len(out.val) : out.val[i] = RowSum(lhs.val, i)
          /\ SumRange(out.val, 1, Len(out.val)) = NpSum(lhs.val).val
          /\ lhs.val = onesarray => out.val = <<4, 4, 4>>

C15_Witness ==
    /\ op = "sum axis=0" /\ lhs = Arr2(my_array2d)
    /\ out = Arr(<<15, 18, 21, 24>>)

\* the record of the cell executed last
LastRec == hist[Len(hist)]

\* C16: when the reshape cell (line 786) has just run in a namespace
\* holding test_images, it has ended in NameError for the misspelled name
\* test_iamges_tensor, raised by its second statement (line 804), and the
\* name test_images_tensor its first statement bound is in the namespace.
C16_ReshapeFailsOnTypo ==
    (Len(hist) > 0 /\ LastRec.line = 786 /\ "test_images" \in env) =>
        /\ LastRec.err = NameErr("test_iamges_tensor")
        /\ LastRec.errline = 804
        /\ "test_images_tensor" \in env

C16_Witness ==
    /\ Len(hist) > 0 /\ LastRec.line = 786 /\ "test_images" \in env
    /\ LastRec.err = NameErr("test_iamges_tensor")
    /\ "test_images_tensor" \in env

-----------------------------------------------------------------------------
(* Specifications                                                          *)

vars == <<nbvars, mtvars, swvars, rmvars, mcvars, opvars>>

\* a notebook is run cell by cell in document order
Init == InitRun /\ IdleThrows /\ IdleSweep /\ IdleRunning /\ IdleMC /\ IdleOps
Next == RunCell
Spec == Init /\ [][Next]_vars

\* one call of make_throws
InitT == IdleRun /\ InitThrows /\ IdleSweep /\ IdleRunning /\ IdleMC /\ IdleOps
NextT == MakeThrowsStep \/ MakeThrowsReturn
SpecThrows == InitT /\ [][NextT]_vars

\* the cell that builds sample_sizes and sample_means
InitS == IdleRun /\ IdleThrows /\ InitSweep /\ IdleRunning /\ IdleMC /\ IdleOps
NextS == SweepStep \/ SweepDone
SpecSweep == InitS /\ [][NextS]_vars

\* the cell that builds running_means
InitR == IdleRun /\ IdleThrows /\ IdleSweep /\ InitRunning /\ IdleMC /\ IdleOps
NextR == RunningMeanStep \/ RunningMeanDone
SpecRunning == InitR /\ [][NextR]_vars

\* the cell of the Monte-Carlo sweep
InitM == IdleRun /\ IdleThrows /\ IdleSweep /\ IdleRunning /\ InitMC /\ IdleOps
NextM == McStep \/ McPlot
SpecMC == InitM /\ [][NextM]_vars

\* one expression of the numpy notebook on operands of bounded size
InitA == IdleRun /\ IdleThrows /\ IdleSweep /\ IdleRunning /\ IdleMC /\ InitOps
NextA ==
    \/ AddArraysCell \/ AddListsCell \/ AddScalarCell \/ MulScalarCell
    \/ SumCell \/ SumAxis0Cell \/ SumAxis1Cell
SpecArrays == InitA /\ [][NextA]_vars


\* the numpy notebook is run in a kernel that was not restarted
InitK == InitStale /\ IdleThrows /\ IdleSweep /\ IdleRunning /\ IdleMC /\ IdleOps
NextK == RunCell
SpecStale == InitK /\ [][NextK]_vars

=============================================================================
